---- MODULE Spec2Model ----
(***************************************************************************)
(* A model of hyperion::assert: the panic core (the process-wide handler   *)
(* pointer and the execute entry points), the assertion macros built on    *)
(* it, scoped post-conditions, the expression decomposer and its           *)
(* formatter, the lexer and highlighter with its colour table, and the     *)
(* backtrace formatter.                                                    *)
(***************************************************************************)
EXTENDS Integers, Sequences, FiniteSets, TLC

VARIABLES
    mode,       \* build mode, HYPERION_PLATFORM_MODE_IS_DEBUG: "debug" | "release"
    s_handler,  \* detail::s_handler, the process-wide atomic handler pointer
    lastSet,    \* history: argument of the most recent set_handler call, or "none"
    pc,         \* position of the main thread
    cur,        \* the operation the main thread is in (assertion or panic)
    scope,      \* the scope with post-conditions the main thread is in
    dec,        \* the condition being decomposed and its decomposition
    colors,     \* highlight.cpp get_colors(): the static table of colours by kind name
    reg,        \* history of the colour registrations and the last get_color result
    hl,         \* a highlight call and a set_color call running on two threads
    lx,         \* a string being parsed and highlighted
    trace,      \* a backtrace being formatted
    fm,         \* an expression with operands of any type being formatted
    fn          \* an object of the value classes, or a call of a pure function

panicVars == <<mode, s_handler, lastSet, pc, cur, scope>>

aux == <<colors, reg, hl, lx, trace, fm, fn>>

vars == <<panicVars, dec, aux>>

-----------------------------------------------------------------------------
(* Values *)

Null == "null"

DefaultHandler == "default_handler"

TestHandlers == {"test_handler", "other_handler"}

Handlers == {DefaultHandler} \cup TestHandlers

HandlerArgs == Handlers \cup {Null}

Threads == {"main", "other"}



Kinds == {"Debug", "Requirement", "Fatal", "Precondition", "Postcondition"}

Terminal == {"aborted", "trapped", "crashed"}

\* Bounds of the model
MaxOperands == 3
MaxStmts == 3

MaxGuards == 2

MaxValue == 1

ScopeValues == 0..MaxValue

\* HYPERION_ASSERT_CONTRACT_ASSERTIONS_DEBUG_ONLY: not defined by the library,
\* so the preprocessor reads it as 0 (the documented default).
CONTRACT_ASSERTIONS_DEBUG_ONLY == FALSE

NoCtx == [present |-> FALSE, fs |-> <<>>, args |-> <<>>]

\* the optional context message of an assertion: a format string and its arguments
Contexts ==
    { NoCtx,
      [present |-> TRUE, fs |-> <<"with context message">>, args |-> <<>>],
      [present |-> TRUE, fs |-> <<"with ", "{}", " context messages">>, args |-> <<"42">>] }

\* the three execute entry points behind HYPERION_PANIC, with their arguments
PanicArgs ==
    { [entry |-> "execute", fs |-> <<>>, args |-> <<>>],
      [entry |-> "execute_msg", fs |-> <<"With a panic Message!">>, args |-> <<>>],
      [entry |-> "execute_fmt", fs |-> <<"With ", "{}", " panic Messages!">>, args |-> <<"42">>],
      [entry |-> "execute_fmt", fs |-> <<"{}", " of ", "{}">>, args |-> <<"1", "2">>] }

-----------------------------------------------------------------------------
(* Pure functions *)

\* fmt::format: each "{}" of the format string is replaced by the next argument
RECURSIVE Format(_, _)
Format(fs, args) ==
    IF fs = <<>> THEN <<>>
    ELSE IF Head(fs) = "{}"
         THEN <<Head(args)>> \o Format(Tail(fs), Tail(args))
         ELSE <<Head(fs)>> \o Format(Tail(fs), args)

\* the label each assertion macro hands to HYPERION_DETAIL_ASSERT_HANDLER
AssertionLabel(kind) ==
    CASE kind = "Debug" -> "Debug"
      [] kind = "Requirement" -> "Requirement"
      [] kind = "Fatal" -> "Fatal"
      [] kind = "Precondition" -> "Contract Violaton:\nPre-condition"
      [] kind = "Postcondition" -> "Contract Violation:\nPost-condition"

\* a composer that prints the context section whether or not a message is given
create_assertion_message_always_context(assertion_type, condition, decomposition, ctx) ==
    <<assertion_type, "Assertion Failed:", condition,
      "Where:", condition, "Evaluated To:", decomposition>>
    \o <<"Context Message:">> \o Format(ctx.fs, ctx.args)

\* detail::create_assertion_message, as the sequence of its segments
create_assertion_message(assertion_type, condition, decomposition, ctx) ==
    <<assertion_type, "Assertion Failed:", condition,
      "Where:", condition, "Evaluated To:", decomposition>>
    \o (IF ctx.present THEN <<"Context Message:">> \o Format(ctx.fs, ctx.args) ELSE <<>>)

\* whether the macro of this kind expands to HYPERION_ASSERT_ASSUME in this build
UsesAssume(kind, m) ==
    \/ kind = "Debug" /\ m = "release"
    \/ kind \in {"Precondition", "Postcondition"} /\ m = "release"
       /\ CONTRACT_ASSERTIONS_DEBUG_ONLY

\* set_handler that installs a handler only over the default one
set_handler_first_only(current, handler) ==
    IF current = DefaultHandler THEN handler ELSE current

\* the value set_handler leaves in s_handler
set_handler(current, handler) == handler

\* get_handler: the atomic load of s_handler
get_handler(current) == current

\* panic::default_handler()
default_handler == DefaultHandler

\* execute that hands its format string on without formatting it
ExecuteMessage_unformatted(p) ==
    IF p.entry = "execute" THEN <<>> ELSE p.fs

\* the message each execute overload hands to the handler
ExecuteMessage(p) ==
    CASE p.entry = "execute" -> <<>>
      [] p.entry = "execute_msg" -> p.fs
      [] p.entry = "execute_fmt" -> Format(p.fs, p.args)

-----------------------------------------------------------------------------
(* The panic core and the assertion macros *)

NoCall == [h |-> "none", msg |-> <<>>, loc |-> "none", bt |-> "none"]

NoGiven == [entry |-> "none", fs |-> <<>>, args |-> <<>>]

NoCur ==
    [src |-> "none", kind |-> "none", cond |-> TRUE, given |-> NoGiven,
     old |-> "none", seen |-> {}, atLoad |-> "none", h |-> "none",
     loads |-> 0, invokes |-> 0, msg |-> <<>>, loc |-> "none", bt |-> "none",
     call |-> NoCall, ret |-> "idle", stderr |-> <<>>]

NoScope ==
    [value |-> 0, guards |-> <<>>, steps |-> 0, how |-> "none",
     destroyed |-> 0, finalVal |-> 0]

NewGuard(target, value) ==
    [target |-> target, atDecl |-> value, evals |-> 0, obs |-> -1, evalStep |-> -1]

\* the program state an evaluation of e threads through: the value just
\* computed, whether behaviour became undefined, the caller's x, how often each
\* operand was evaluated and each operator applied
Start(e, x) == [v |-> 0, ub |-> FALSE, x |-> x,
                evals |-> [i \in 1..Len(e.leaves) |-> 0],
                applied |-> [i \in 1..Len(e.ops) |-> 0]]

\* no condition is being decomposed
NoExpr == [leaves |-> <<>>, ops |-> <<>>]

NoDecomposition == [init |-> 0, byRef |-> FALSE, chain |-> <<>>, s |-> Start(NoExpr, 0)]

NoDec == [phase |-> "none", e |-> NoExpr, x0 |-> 0, d |-> NoDecomposition,
          val |-> 0, exprs |-> 0, text |-> <<>>]

-----------------------------------------------------------------------------
(* Token kinds and the colour table of the highlighter *)

\* tokens::Kind: a variant whose Identifier alternative is itself a variant
Kind(tag, sub) == [tag |-> tag, sub |-> sub]

Punctuation == Kind("Punctuation", "none")

Keyword == Kind("Keyword", "none")

String == Kind("String", "none")

Numeric == Kind("Numeric", "none")

Error == Kind("Error", "none")

Identifier(sub) == Kind("Identifier", sub)

IdentifierKinds == {"Namespace", "Type", "Function", "Variable"}

TokenKinds == {Punctuation, Keyword, String, Numeric, Error}
                 \cup {Identifier(sub) : sub \in IdentifierKinds}

\* a to_string that names every identifier by the variant it belongs to
to_string_by_variant(kind) == kind.tag

\* to_string(kind): the name of the alternative, the key of the colour table
to_string(kind) == IF kind.tag = "Identifier" THEN kind.sub ELSE kind.tag

\* the table get_colors() is constructed with on first use
get_colors ==
    [name \in {to_string(k) : k \in TokenKinds} |->
        CASE name = "Punctuation" -> "0x9daaaa"
          [] name = "Keyword" -> "0xc67ada"
          [] name = "String" -> "0x83a76e"
          [] name = "Numeric" -> "0xd29767"
          [] name = "Namespace" -> "0x00997b"
          [] name = "Type" -> "0xdbba75"
          [] name = "Function" -> "0x61afef"
          [] name = "Variable" -> "0x9daaaa"
          [] name = "Error" -> "0xc65156"]

\* colours a caller registers
UserColors == {"0xff0000", "0x0000ff"}

\* struct Highlight { kind; color; }
Highlights == [kind : TokenKinds, color : UserColors]

NoReg == [n |-> 0, last |-> [k \in TokenKinds |-> "none"],
          got |-> [kind |-> Error, color |-> "none"]]

NoHl == [pc |-> "idle", tokens |-> <<>>, styled |-> <<>>, epochs |-> <<>>,
         raced |-> FALSE, writing |-> FALSE,
         highlight |-> [kind |-> Error, color |-> "none"], epoch |-> 0]

NoLex == [pc |-> "idle", str |-> <<>>, for_backtrace |-> FALSE,
          tokens |-> <<>>, out |-> <<>>]

\* no object of the value classes is under construction, no call is pending
NoFn == [pc |-> "idle"]

AuxInit ==
    /\ colors = get_colors
    /\ reg = NoReg
    /\ hl = NoHl
    /\ lx = NoLex
    /\ trace = [pc |-> "idle", backtrace |-> <<>>, style |-> "Unstyled", output |-> <<>>]
    /\ fm = [pc |-> "idle", operands |-> <<>>, ops |-> <<>>, out |-> <<>>]
    /\ fn = NoFn

PanicInit ==
    /\ s_handler = default_handler
    /\ lastSet = "none"
    /\ pc = "idle"
    /\ cur = NoCur
    /\ scope = NoScope

Init ==
    /\ mode \in {"debug", "release"}
    /\ s_handler = default_handler
    /\ lastSet = "none"
    /\ pc = "idle"
    /\ cur = NoCur
    /\ scope = NoScope
    /\ dec = NoDec
    /\ AuxInit

\* set_handler(handler), from any thread
SetHandler(t, handler) ==
    /\ pc \notin Terminal
    /\ t = "main" => pc = "idle"
    /\ s_handler' = set_handler(s_handler, handler)
    /\ lastSet' = handler
    /\ cur' = IF pc \in {"entered", "loaded"}
              THEN [cur EXCEPT !.seen = @ \cup {handler}]
              ELSE cur
    /\ UNCHANGED <<dec, aux, mode, pc, scope>>

\* the state of the main thread on entry to detail::execute
Entered(src, kind, given, msg, loc, bt, ret) ==
    [NoCur EXCEPT !.src = src, !.kind = kind, !.cond = FALSE, !.given = given,
                  !.old = s_handler, !.seen = {s_handler},
                  !.msg = msg, !.loc = loc, !.bt = bt, !.ret = ret]

\* a handler whose test lacks the negation: it panics when the condition holds
DETAIL_ASSERT_HANDLER_inverted(kind, cond, ctx, loc, bt, ret) ==
    IF ~cond
    THEN /\ pc' = "returned"
         /\ cur' = [NoCur EXCEPT !.src = "assert", !.kind = kind, !.cond = cond,
                                 !.old = s_handler, !.ret = ret]
    ELSE /\ pc' = "entered"
         /\ cur' = [Entered("assert", kind, NoGiven,
                            create_assertion_message(AssertionLabel(kind), "condition",
                                                     "decomposition", ctx),
                            loc, bt, ret) EXCEPT !.cond = cond]

\* HYPERION_DETAIL_ASSERT_HANDLER(condition, assertion_type, ...): the condition
\* is evaluated through the decomposer; when false the message is composed
\* and HYPERION_PANIC calls detail::execute
DETAIL_ASSERT_HANDLER(kind, cond, ctx, loc, bt, ret) ==
    IF cond
    THEN /\ pc' = "returned"
         /\ cur' = [NoCur EXCEPT !.src = "assert", !.kind = kind, !.cond = TRUE,
                                 !.old = s_handler, !.ret = ret]
    ELSE /\ pc' = "entered"
         /\ cur' = Entered("assert", kind, NoGiven,
                           create_assertion_message(AssertionLabel(kind), "condition",
                                                    "decomposition", ctx),
                           loc, bt, ret)

\* HYPERION_ASSERT_DEBUG / _REQUIRE / _FATAL / _PRECONDITION as a statement
AssertionHandler(kind, cond, ctx, loc, bt) ==
    /\ pc = "idle"
    /\ kind # "Postcondition"
    /\ ~UsesAssume(kind, mode)
    /\ DETAIL_ASSERT_HANDLER(kind, cond, ctx, loc, bt, "idle")
    /\ UNCHANGED <<dec, aux, mode, s_handler, lastSet, scope>>

\* HYPERION_ASSERT_ASSUME(condition): nothing when the condition holds,
\* undefined behaviour when it does not
AssumeHandler(kind, cond) ==
    /\ pc = "idle"
    /\ UsesAssume(kind, mode)
    /\ cur' = [NoCur EXCEPT !.src = "assume", !.kind = kind, !.cond = cond,
                            !.old = s_handler]
    /\ \/ pc' = "returned"
       \/ ~cond /\ pc' = "crashed"
    /\ UNCHANGED <<dec, aux, mode, s_handler, lastSet, scope>>

\* HYPERION_PANIC(...): the source location and backtrace are captured at the
\* call site and detail::execute is entered
Panic(p, loc, bt) ==
    /\ pc = "idle"
    /\ pc' = "entered"
    /\ cur' = Entered("panic", p.entry, p, ExecuteMessage(p), loc, bt, "idle")
    /\ UNCHANGED <<dec, aux, mode, s_handler, lastSet, scope>>

\* detail::execute: panic::get_handler() loads the handler pointer
ExecuteLoad ==
    /\ pc = "entered"
    /\ pc' = "loaded"
    /\ cur' = [cur EXCEPT !.h = get_handler(s_handler), !.atLoad = s_handler,
                          !.loads = @ + 1]
    /\ UNCHANGED <<dec, aux, mode, s_handler, lastSet, scope>>

\* a call that reads the handler pointer a second time
HandlerCall_reload == [h |-> s_handler, msg |-> cur.msg, loc |-> cur.loc, bt |-> cur.bt]

\* the call made through the loaded pointer
HandlerCall == [h |-> cur.h, msg |-> cur.msg, loc |-> cur.loc, bt |-> cur.bt]

\* detail::execute: the loaded pointer is null, the call is undefined behaviour
ExecuteInvokeNull ==
    /\ pc = "loaded"
    /\ cur.h = Null
    /\ \/ pc' = "crashed"
       \/ pc' = "returned"
    /\ UNCHANGED <<dec, aux, mode, s_handler, lastSet, cur, scope>>

\* detail::execute calls a user handler, which returns
ExecuteInvokeUser ==
    /\ pc = "loaded"
    /\ cur.h \in TestHandlers
    /\ pc' = "returned"
    /\ cur' = [cur EXCEPT !.invokes = @ + 1, !.call = HandlerCall]
    /\ UNCHANGED <<dec, aux, mode, s_handler, lastSet, scope>>

\* a default handler that prints the backtrace before the message
default_handler_print_backtrace_first(panic_message, location, backtrace) ==
    <<[seg |-> "header", text |-> <<"Panic occurred at", location, ":">>],
      [seg |-> "blank", text |-> <<>>],
      [seg |-> "title", text |-> <<"Backtrace:">>],
      [seg |-> "backtrace", text |-> <<backtrace>>]>>
    \o (IF panic_message = <<>> THEN <<>>
        ELSE <<[seg |-> "blank", text |-> <<>>],
               [seg |-> "message", text |-> panic_message]>>)

\* what the fmt::print(stderr, ...) of the default handler writes, as the
\* sequence of its segments; format_source_location and format_backtrace are
\* stood for by the location and the backtrace they print
default_handler_print(panic_message, location, backtrace) ==
    IF panic_message = <<>>
    THEN <<[seg |-> "header", text |-> <<"Panic occurred at", location, ":">>],
           [seg |-> "blank", text |-> <<>>],
           [seg |-> "title", text |-> <<"Backtrace:">>],
           [seg |-> "backtrace", text |-> <<backtrace>>]>>
    ELSE <<[seg |-> "header", text |-> <<"Panic occurred at", location, ":">>],
           [seg |-> "blank", text |-> <<>>],
           [seg |-> "message", text |-> panic_message],
           [seg |-> "blank", text |-> <<>>],
           [seg |-> "title", text |-> <<"Backtrace:">>],
           [seg |-> "backtrace", text |-> <<backtrace>>]>>

\* detail::execute calls the default handler, which first prints to stderr
ExecuteInvokeDefault ==
    /\ pc = "loaded"
    /\ cur.h = DefaultHandler
    /\ cur' = [cur EXCEPT !.invokes = @ + 1, !.call = HandlerCall,
                          !.stderr = default_handler_print(cur.msg, cur.loc, cur.bt)]
    /\ pc' = "printed"
    /\ UNCHANGED <<dec, aux, mode, s_handler, lastSet, scope>>

\* a default handler that returns to its caller after printing
DefaultHandlerEnd_returns ==
    /\ pc = "printed"
    /\ pc' = "returned"
    /\ UNCHANGED <<dec, aux, mode, s_handler, lastSet, cur, scope>>

\* the default handler after printing: std::abort() in release builds and
\* HYPERION_ASSERT_DEBUG_BREAK() in debug builds (a trap that ends the
\* process, or is resumed under a debugger)
DefaultHandlerEnd ==
    /\ pc = "printed"
    /\ \/ mode = "release" /\ pc' = "aborted"
       \/ mode = "debug" /\ pc' = "trapped"
       \/ mode = "debug" /\ pc' = "returned"
    /\ UNCHANGED <<dec, aux, mode, s_handler, lastSet, cur, scope>>

\* control returns to the statement after the assertion or panic
OperationReturn ==
    /\ pc = "returned"
    /\ pc' = cur.ret
    /\ cur' = NoCur
    /\ UNCHANGED <<dec, aux, mode, s_handler, lastSet, scope>>

-----------------------------------------------------------------------------
(* Scoped post-conditions *)

\* a lambda that captures by copy reads the value held at its declaration
GuardObserved_by_copy(atDecl, atExit) == atDecl

\* the value of the caller's variable the post-condition's lambda reads when
\* it runs: it captures by reference ([&]), so the value at scope exit
GuardObserved(atDecl, atExit) == atExit

\* a function body is entered; its variable holds some value
ScopeEnter(v) ==
    /\ pc = "idle"
    /\ pc' = "scope"
    /\ scope' = [NoScope EXCEPT !.value = v]
    /\ UNCHANGED <<dec, aux, mode, s_handler, lastSet, cur>>

\* a statement of the body assigns the variable
ScopeAssign(v) ==
    /\ pc = "scope"
    /\ scope.steps < MaxStmts
    /\ scope' = [scope EXCEPT !.value = v, !.steps = @ + 1]
    /\ UNCHANGED <<dec, aux, mode, s_handler, lastSet, pc, cur>>

\* HYPERION_ASSERT_POSTCONDITION(value == target): a PostConditionInvoker
\* holding the lambda is constructed in the scope
ScopePostcondition(target) ==
    /\ pc = "scope"
    /\ scope.steps < MaxStmts
    /\ Len(scope.guards) < MaxGuards
    /\ ~UsesAssume("Postcondition", mode)
    /\ scope' = [scope EXCEPT !.guards = Append(@, NewGuard(target, scope.value)),
                              !.steps = @ + 1]
    /\ UNCHANGED <<dec, aux, mode, s_handler, lastSet, pc, cur>>

\* the body ends: by falling off its end, by a return statement, or by an
\* exception thrown out of it
ScopeExit(how) ==
    /\ pc = "scope"
    /\ pc' = "exiting"
    /\ scope' = [scope EXCEPT !.how = how, !.finalVal = scope.value]
    /\ UNCHANGED <<dec, aux, mode, s_handler, lastSet, cur>>

\* guards destroyed in the order of their declaration
GuardDestroy_in_order ==
    /\ pc = "exiting"
    /\ scope.destroyed < Len(scope.guards)
    /\ LET i == scope.destroyed + 1
           g == scope.guards[i]
           seen == GuardObserved(g.atDecl, scope.value)
       IN /\ scope' = [scope EXCEPT !.destroyed = @ + 1,
                                    !.guards[i] = [g EXCEPT !.evals = @ + 1,
                                                            !.obs = seen,
                                                            !.evalStep = scope.steps]]
          /\ DETAIL_ASSERT_HANDLER("Postcondition", seen = g.target, NoCtx,
                                   "loc1", "bt1", "exiting")
    /\ UNCHANGED <<dec, aux, mode, s_handler, lastSet>>

\* ~PostConditionInvoker of the most recently constructed guard still alive:
\* it calls the lambda, which runs HYPERION_DETAIL_ASSERT_HANDLER
GuardDestroy ==
    /\ pc = "exiting"
    /\ scope.destroyed < Len(scope.guards)
    /\ LET i == Len(scope.guards) - scope.destroyed
           g == scope.guards[i]
           seen == GuardObserved(g.atDecl, scope.value)
       IN /\ scope' = [scope EXCEPT !.destroyed = @ + 1,
                                    !.guards[i] = [g EXCEPT !.evals = @ + 1,
                                                            !.obs = seen,
                                                            !.evalStep = scope.steps]]
          /\ DETAIL_ASSERT_HANDLER("Postcondition", seen = g.target, NoCtx,
                                   "loc1", "bt1", "exiting")
    /\ UNCHANGED <<dec, aux, mode, s_handler, lastSet>>

\* every guard is destroyed: control is back in the caller
ScopeLeave ==
    /\ pc = "exiting"
    /\ scope.destroyed = Len(scope.guards)
    /\ pc' = "left"
    /\ UNCHANGED <<dec, aux, mode, s_handler, lastSet, cur, scope>>

\* the caller goes on
ScopeDone ==
    /\ pc = "left"
    /\ pc' = "idle"
    /\ scope' = NoScope
    /\ UNCHANGED <<dec, aux, mode, s_handler, lastSet, cur>>

\* the call sites: HYPERION_PANIC and the assertion macros capture the location
\* and the backtrace together, where they are expanded
CallSites == {<<"loc1", "bt1">>, <<"loc2", "bt2">>}

\* a program that panics and asserts while another thread swaps the handler
Next ==
    \/ \E t \in Threads, h \in HandlerArgs : SetHandler(t, h)
    \/ \E k \in Kinds, c \in BOOLEAN, x \in Contexts, s \in CallSites :
          AssertionHandler(k, c, x, s[1], s[2])
    \/ \E k \in Kinds, c \in BOOLEAN : AssumeHandler(k, c)
    \/ \E p \in PanicArgs, s \in CallSites : Panic(p, s[1], s[2])
    \/ ExecuteLoad
    \/ ExecuteInvokeNull
    \/ ExecuteInvokeUser
    \/ ExecuteInvokeDefault
    \/ DefaultHandlerEnd
    \/ OperationReturn

\* a single-threaded program that runs scopes with post-conditions
NextScope ==
    \/ \E h \in HandlerArgs : SetHandler("main", h)
    \/ \E v \in ScopeValues : ScopeEnter(v)
    \/ \E v \in ScopeValues : ScopeAssign(v)
    \/ \E v \in ScopeValues : ScopePostcondition(v)
    \/ \E how \in {"fallthrough", "return", "throw"} : ScopeExit(how)
    \/ GuardDestroy
    \/ ScopeLeave
    \/ ScopeDone
    \/ ExecuteLoad
    \/ ExecuteInvokeNull
    \/ ExecuteInvokeUser
    \/ ExecuteInvokeDefault
    \/ DefaultHandlerEnd
    \/ OperationReturn

Spec == Init /\ [][Next]_vars

SpecScope == Init /\ [][NextScope]_vars

-----------------------------------------------------------------------------
(* The expression decomposer: ExpressionDecomposer{}->*condition *)

\* the captureable operators the model draws conditions from
Operators == {"/", "+", "==", "&&", "||", "+=", ","}

\* C++ operator precedence: a smaller level binds tighter
Prec(op) ==
    CASE op = "/" -> 5
      [] op = "+" -> 6
      [] op = "==" -> 10
      [] op = "&&" -> 14
      [] op = "||" -> 15
      [] op = "+=" -> 16
      [] op = "," -> 17

\* the values of literal operands and of x: false and true, zero and one
Lits == {0, 1}

\* operands: an integer literal, the caller's int variable x, a call f() that
\* counts its calls and returns 1
Leaves == {[k |-> "lit", v |-> n] : n \in Lits} \cup {[k |-> "var", v |-> 0], [k |-> "call", v |-> 1]}

\* a condition a op1 b op2 c ... as written after ->*, without parentheses
Chains(n) == {[leaves |-> l, ops |-> o] : l \in [1..n -> Leaves], o \in [1..(n - 1) -> Operators]}

Max(S) == CHOOSE m \in S : \A n \in S : n <= m

Min(S) == CHOOSE m \in S : \A n \in S : m <= n

\* the operator at which the compiler splits operands lo..hi: the loosest one,
\* the rightmost of equals (left-associative) or the leftmost for assignments
Split(e, lo, hi) ==
    LET m == Max({Prec(e.ops[i]) : i \in lo..(hi - 1)})
        at == {i \in lo..(hi - 1) : Prec(e.ops[i]) = m}
    IN IF m = Prec("+=") THEN Min(at) ELSE Max(at)

\* the condition compiles: a compound assignment needs an lvalue on its left
RECURSIVE WellFormed(_, _, _)
WellFormed(e, lo, hi) ==
    IF lo = hi
    THEN TRUE
    ELSE LET i == Split(e, lo, hi)
         IN /\ e.ops[i] = "+=" => (i = lo /\ e.leaves[lo].k = "var")
            /\ WellFormed(e, lo, i)
            /\ WellFormed(e, i + 1, hi)

Bool(b) == IF b THEN 1 ELSE 0

\* Operator<op>::do_op(lhs, rhs) on values: lhs op rhs
Operator_do_op(op, lhs, rhs) ==
    CASE op = "/" -> IF rhs = 0 THEN 0 ELSE lhs \div rhs
      [] op = "+" -> lhs + rhs
      [] op = "==" -> Bool(lhs = rhs)
      [] op = "&&" -> Bool(lhs # 0 /\ rhs # 0)
      [] op = "||" -> Bool(lhs # 0 \/ rhs # 0)
      [] op = "+=" -> lhs + rhs
      [] op = "," -> rhs

\* lhs op rhs is undefined: division by zero
Undefined(op, rhs) == op = "/" /\ rhs = 0

\* operand i of e evaluated: a literal, the value of x, or the result of f()
EvalLeaf(e, i, s) ==
    [s EXCEPT !.v = IF e.leaves[i].k = "var" THEN s.x ELSE e.leaves[i].v,
              !.evals[i] = @ + 1]

\* operands lo..hi evaluated by the built-in operators: && and || evaluate
\* their right operand only when the left one does not decide, an assignment
\* evaluates its right side first and updates the variable
RECURSIVE Native(_, _, _, _)
Native(e, lo, hi, s) ==
    IF lo = hi
    THEN EvalLeaf(e, lo, s)
    ELSE LET i == Split(e, lo, hi)
             op == e.ops[i]
         IN IF op = "+="
            THEN LET r == Native(e, i + 1, hi, s)
                 IN [r EXCEPT !.v = r.x + r.v, !.x = r.x + r.v,
                              !.evals[lo] = @ + 1, !.applied[i] = @ + 1]
            ELSE LET l == Native(e, lo, i, s)
                 IN IF op = "&&" /\ l.v = 0 THEN [l EXCEPT !.v = 0, !.applied[i] = @ + 1]
                    ELSE IF op = "||" /\ l.v # 0 THEN [l EXCEPT !.v = 1, !.applied[i] = @ + 1]
                    ELSE LET r == Native(e, i + 1, hi, l)
                         IN [r EXCEPT !.v = Operator_do_op(op, l.v, r.v),
                                      !.ub = r.ub \/ Undefined(op, r.v),
                                      !.applied[i] = @ + 1]

\* storage_type<T>: a trivially copy-constructible operand (every int and bool)
\* is stored in the expression by value, also when it is an lvalue
storage_type(leaf) == "value"

\* ExpressionDecomposer{}->*operand: an InitialExpression that stores the
\* first operand of e
InitialExpression(e, s) ==
    LET l == EvalLeaf(e, 1, s)
    IN [init |-> l.v,
        byRef |-> e.leaves[1].k = "var" /\ storage_type(e.leaves[1]) = "reference",
        chain |-> <<>>, s |-> l]

\* the operators on InitialExpression and BinaryExpression: operands 1..hi
\* become BinaryExpression{lhs, rhs}, lhs the expression built so far and rhs
\* the value of the whole right operand, which is an ordinary argument of the
\* overloaded operator and so is evaluated whatever lhs is
RECURSIVE Capture(_, _, _)
Capture(e, hi, s) ==
    IF hi = 1
    THEN InitialExpression(e, s)
    ELSE LET i == Split(e, 1, hi)
             op == e.ops[i]
         IN IF op = "+="
            THEN LET r == Native(e, i + 1, hi, s)
                     c == Capture(e, i, r)
                 IN [c EXCEPT !.chain = Append(@, [op |-> op, at |-> i, rhs |-> r.v])]
            ELSE LET c == Capture(e, i, s)
                     r == Native(e, i + 1, hi, c.s)
                 IN [c EXCEPT !.chain = Append(@, [op |-> op, at |-> i, rhs |-> r.v]), !.s = r]

\* BinaryExpression::do_op() of the expression made of the first n operators:
\* the operator applied to m_lhs, or to m_lhs.do_op() when m_lhs is a
\* BinaryExpression, and m_rhs; a compound assignment writes to m_lhs
RECURSIVE do_op(_, _)
do_op(d, n) ==
    IF n = 0
    THEN [d EXCEPT !.s.v = IF d.byRef THEN d.s.x ELSE d.init]
    ELSE LET l == do_op(d, n - 1)
             op == d.chain[n].op
             v == Operator_do_op(op, l.s.v, d.chain[n].rhs)
         IN IF op = "+="
            THEN [l EXCEPT !.s.v = v, !.s.applied[d.chain[n].at] = @ + 1,
                           !.init = IF l.byRef THEN @ ELSE v,
                           !.s.x = IF l.byRef THEN v ELSE @]
            ELSE [l EXCEPT !.s.v = v, !.s.applied[d.chain[n].at] = @ + 1,
                           !.s.ub = @ \/ Undefined(op, d.chain[n].rhs)]

\* the formatter of a decomposition: "lhs op rhs", a nested lhs in parentheses;
\* it reads lhs(), rhs() and operator_() only
RECURSIVE FormatDecomposition(_, _)
FormatDecomposition(d, n) ==
    IF n = 0 THEN <<ToString(IF d.byRef THEN d.s.x ELSE d.init)>>
    ELSE IF n = 1
    THEN FormatDecomposition(d, 0) \o <<d.chain[1].op, ToString(d.chain[1].rhs)>>
    ELSE <<"(">> \o FormatDecomposition(d, n - 1)
         \o <<")", d.chain[n].op, ToString(d.chain[n].rhs)>>

\* the values a run whose behaviour is undefined may produce
AnyValue == Lits

InitDecomp ==
    /\ mode = "debug"
    /\ s_handler = default_handler
    /\ lastSet = "none"
    /\ pc = "idle"
    /\ cur = NoCur
    /\ scope = NoScope
    /\ \E n \in 2..MaxOperands :
          \E e \in Chains(n), x \in Lits :
             /\ WellFormed(e, 1, n)
             /\ dec = [NoDec EXCEPT !.phase = "new", !.e = e, !.x0 = x]
    /\ AuxInit

\* auto decomposition = (ExpressionDecomposer{}->*condition): the operands are
\* evaluated and stored
Decompose ==
    /\ dec.phase = "new"
    /\ LET d == Capture(dec.e, Len(dec.e.leaves), Start(dec.e, dec.x0))
       IN /\ dec' \in {[dec EXCEPT !.phase = ph, !.d = d] :
                          ph \in IF d.s.ub THEN {"captured", "crashed"} ELSE {"captured"}}
    /\ UNCHANGED <<panicVars, aux>>

\* decomposition.expr(), the one call the assertion handler makes
Expr ==
    /\ dec.phase = "captured"
    /\ LET d == do_op(dec.d, Len(dec.d.chain))
       IN \E v \in IF d.s.ub THEN AnyValue ELSE {d.s.v} :
             dec' = [dec EXCEPT !.phase = IF v # 0 THEN "passed" ELSE "failed",
                                !.d = d, !.val = v, !.exprs = @ + 1]
    /\ UNCHANGED <<panicVars, aux>>

\* a formatter that evaluates the expression again to print it
Render_reevaluating ==
    /\ dec.phase = "failed"
    /\ LET d == do_op(dec.d, Len(dec.d.chain))
       IN dec' = [dec EXCEPT !.phase = "rendered", !.d = d,
                             !.text = FormatDecomposition(d, Len(d.chain))]
    /\ UNCHANGED <<panicVars, aux>>

\* create_assertion_message formats the decomposition of a failed assertion
Render ==
    /\ dec.phase = "failed"
    /\ dec' = [dec EXCEPT !.phase = "rendered",
                          !.text = FormatDecomposition(dec.d, Len(dec.d.chain))]
    /\ UNCHANGED <<panicVars, aux>>

NextDecomp ==
    \/ Decompose
    \/ Expr
    \/ Render

SpecDecomp == InitDecomp /\ [][NextDecomp]_vars

-----------------------------------------------------------------------------
(* Claims about the panic core, the assertion macros and post-conditions *)

\* positions at which a call of detail::execute or an assertion is over
Done == {"returned", "aborted", "trapped"}

\* the number of "{}" placeholders among the first i pieces of a format string
PlaceholderRank(fs, i) == Cardinality({j \in 1..i : fs[j] = "{}"})

\* msg is fs with its k-th placeholder replaced by the k-th argument
IsFormatted(fs, args, msg) ==
    /\ Len(msg) = Len(fs)
    /\ \A i \in 1..Len(fs) :
          IF fs[i] = "{}" THEN msg[i] = args[PlaceholderRank(fs, i)]
                          ELSE msg[i] = fs[i]

C5_GetReturnsLastSet ==
    get_handler(s_handler) = IF lastSet = "none" THEN default_handler ELSE lastSet

C5_Witness ==
    /\ Cardinality(cur.seen) >= 3
    /\ lastSet = "other_handler" /\ get_handler(s_handler) = "other_handler"

\* C6: a null handler is rejected by set_handler, so that get_handler() never
\* returns null.
C6_NullHandlerRejected ==
    get_handler(s_handler) # Null

\* C7: a panic that runs while another thread swaps the handler loads the
\* pointer once and calls one handler, the one it loaded, which is the handler
\* installed when the panic began or one installed during it.
C7_PanicReadsHandlerOnce ==
    pc \in Done \cup {"loaded"} /\ cur.loads > 0 =>
        /\ cur.loads = 1
        /\ cur.h \in cur.seen
        /\ pc \in Done /\ cur.h \in Handlers =>
              cur.invokes = 1 /\ cur.call.h = cur.h

C7_Witness ==
    /\ pc = "returned" /\ cur.src = "panic" /\ cur.invokes = 1
    /\ Cardinality(cur.seen) = 2
    /\ cur.call.h # cur.old /\ cur.call.h \in TestHandlers

\* C8: each execute entry point calls the current handler once, with the
\* location and backtrace it was given and with its message: empty, the
\* message passed, or the format string with its arguments substituted.
C8_ExecutePassesArguments ==
    pc \in Done /\ cur.src = "panic" /\ cur.atLoad \in Handlers =>
        /\ cur.invokes = 1
        /\ cur.call.h = cur.atLoad
        /\ cur.call.loc = cur.loc /\ cur.call.bt = cur.bt
        /\ CASE cur.given.entry = "execute" -> cur.call.msg = <<>>
             [] cur.given.entry = "execute_msg" -> cur.call.msg = cur.given.fs
             [] cur.given.entry = "execute_fmt" ->
                    IsFormatted(cur.given.fs, cur.given.args, cur.call.msg)

C8_Witness ==
    /\ pc = "returned" /\ cur.src = "panic" /\ cur.invokes = 1
    /\ cur.given.entry = "execute_fmt" /\ Len(cur.given.args) = 2
    /\ cur.call.msg = <<"1", " of ", "2">>

\* C9: a post-condition is not evaluated while the body runs; once the scope
\* has been left by falling through or by a return it has been evaluated
\* exactly once, after the last statement, on the values held at scope exit.
C9_PostconditionAtScopeExit ==
    /\ pc = "scope" => \A i \in 1..Len(scope.guards) : scope.guards[i].evals = 0
    /\ pc = "left" /\ scope.how \in {"fallthrough", "return"} =>
          \A i \in 1..Len(scope.guards) :
              /\ scope.guards[i].evals = 1
              /\ scope.guards[i].obs = scope.finalVal
              /\ scope.guards[i].evalStep = scope.steps

C9_Witness ==
    /\ pc = "left" /\ scope.how = "return" /\ scope.steps = 3
    /\ Len(scope.guards) = 1
    /\ scope.guards[1].atDecl # scope.finalVal
    /\ scope.guards[1].evals = 1 /\ scope.guards[1].obs = scope.finalVal

\* C10: a post-condition whose scope is left by an exception does not call
\* the panic handler.
C10_NoPanicWhileUnwinding ==
    ~(scope.how = "throw" /\ cur.kind = "Postcondition" /\ cur.invokes > 0)

C10_Witness ==
    /\ pc = "left" /\ scope.how = "throw" /\ Len(scope.guards) = 1
    /\ scope.guards[1].evals = 1

-----------------------------------------------------------------------------
(* Claims about the expression decomposer *)

\* the condition of dec evaluated without capture
NativeOf(d) == Native(d.e, 1, Len(d.e.leaves), Start(d.e, d.x0))

Evaluated == {"passed", "failed", "rendered"}

\* the operands with side effects, the calls, and the compound assignments
Calls(e) == {i \in 1..Len(e.leaves) : e.leaves[i].k = "call"}

Assignments(e) == {i \in 1..Len(e.ops) : e.ops[i] = "+="}

\* C2: for every condition built from captureable operators over integer and
\* boolean operands, whose native evaluation is defined, the decomposition is
\* built and expr() returns the native value.
C2_DecomposedValueIsNative ==
    dec.phase \notin {"new", "none"} /\ ~NativeOf(dec).ub =>
        /\ dec.phase # "crashed"
        /\ ~dec.d.s.ub
        /\ dec.phase \in Evaluated => dec.val = NativeOf(dec).v

\* C3: a condition evaluated through the decomposer has the side effects of the
\* same condition evaluated natively: the same operands are evaluated, as
\* often, and the caller's variable ends with the same value.
C3_SideEffectsAreNative ==
    dec.phase \in Evaluated /\ ~NativeOf(dec).ub =>
        /\ dec.d.s.evals = NativeOf(dec).evals
        /\ dec.d.s.x = NativeOf(dec).x

BuiltIn(d) == (1..Len(d.e.ops)) \ {d.d.chain[n].at : n \in 1..Len(d.d.chain)}

-----------------------------------------------------------------------------
(* The lexer and classifier (detail/parser.cpp) and highlight (highlight.cpp). *)
(* A string is a sequence of one-byte strings; positions count from 0.         *)

MaxLen == 4

\* the bytes the input strings are made of: identifier letters (which spell
\* the keyword "if"), a digit, two punctuation bytes and a blank
Alphabet == {"i", "f", "0", "+", "(", " "}

RECURSIVE Str(_)
\* the std::string_view a sequence of bytes spells
Str(s) == IF s = <<>> THEN "" ELSE Head(s) \o Str(Tail(s))

punctuation ==
    {"~", "!", "+", "-", "*", "/", "%", "^", "&", "|", "=", "+=",
     "-=", "*=", "/=", "%=", "^=", "&=", "|=", "==", "!=", "<", ">", "<=",
     ">=", "<=>", "&&", "||", "<<", ">>", "<<=", ">>=", "++", "--", "?", "::",
     ":", "...", ".", ".*", "->", "->*", "[", "]", "{", "}", "(", ")"}

keywords ==
    {"alignas", "constinit", "public", "alignof", "const_cast", "float",
     "register", "try", "asm", "continue", "for", "reinterpret_cast", "typedef",
     "auto", "co_await", "friend", "requires", "typeid", "bool", "co_return",
     "goto", "return", "typename", "break", "co_yield", "if", "short", "union",
     "case", "decltype", "inline", "signed", "unsigned", "catch", "default",
     "int", "sizeof", "using", "char", "delete", "long", "static", "virtual",
     "char8_t", "do", "mutable", "static_assert", "void", "char16_t", "double",
     "namespace", "static_cast", "volatile", "char32_t", "dynamic_cast", "new",
     "struct", "wchar_t", "class", "else", "noexcept", "switch", "while",
     "concept", "enum", "template", "const", "explicit", "this", "consteval",
     "export", "private", "thread_local", "constexpr", "extern", "protected",
     "throw", "and", "or", "xor", "not", "bitand", "bitor", "compl", "and_eq",
     "or_eq", "xor_eq", "not_eq"}

\* a lexer that takes no byte for whitespace
is_whitespace_never(elem) == FALSE

\* the predicate lex splits the string with; "\\v" stands for the vertical tab
is_whitespace(elem) == elem \in {" ", "\n", "\r", "\t", "\\v"}

is_punctuation(elem) == elem \in punctuation

\* std::string_view::substr: the bytes [begin, end) of s
substr(s, begin, end) == SubSeq(s, begin + 1, end)

\* std::string_view::npos, the result of a find that finds nothing
npos == -1

\* a find that searches from the front of s whatever start is
find_from_front(s, sub, start) ==
    LET at == {i \in 0..(Len(s) - Len(sub)) : substr(s, i, i + Len(sub)) = sub}
    IN IF at = {} THEN npos ELSE CHOOSE i \in at : \A j \in at : i <= j

\* std::string_view::find(sub, start): the first position >= start where sub occurs
find(s, sub, start) ==
    LET at == {i \in start..(Len(s) - Len(sub)) : substr(s, i, i + Len(sub)) = sub}
    IN IF at = {} THEN npos ELSE CHOOSE i \in at : \A j \in at : i <= j

RECURSIVE split(_, _)
\* flux split: the pieces of view between the bytes of delims, empty ones included
split(view, delims) ==
    LET at == {i \in 1..Len(view) : view[i] \in delims}
    IN IF at = {} THEN <<view>>
       ELSE LET i == CHOOSE k \in at : \A j \in at : k <= j
            IN <<SubSeq(view, 1, i - 1)>> \o split(SubSeq(view, i + 1, Len(view)), delims)

Token(text, begin, end, kind) ==
    [text |-> text, begin |-> begin, end |-> end, kind |-> kind]

\* the kind lex gives a run of bytes that are not punctuation
literal_kind(ident) ==
    LET is_string == Head(ident) = "\"" /\ ident[Len(ident)] = "\""
        is_keyword == Str(ident) \in keywords
        is_numeric == \/ \A i \in 1..Len(ident) :
                            ident[i] \in {"0", "1", "2", "3", "4", "5", "6", "7", "8", "9"}
                      \/ Head(ident) = "0"
                      \/ Str(ident) \in {"true", "false"}
    IN IF is_string THEN String
       ELSE IF is_numeric THEN Numeric
       ELSE IF is_keyword THEN Keyword
       ELSE Identifier("Namespace")

RECURSIVE lex_runs(_, _, _, _, _)
\* the two inner loops of lex: one token per non-empty run of stripped, located
\* with find from the end of the run before it
lex_runs(stripped, runs, start, begin, punct) ==
    IF runs = <<>> THEN <<>>
    ELSE IF Head(runs) = <<>> THEN lex_runs(stripped, Tail(runs), start, begin, punct)
    ELSE LET run == Head(runs)
             run_begin == find(stripped, run, start)
             run_end == run_begin + Len(run)
         IN <<Token(run, run_begin + begin, run_end + begin,
                    IF punct THEN Punctuation ELSE literal_kind(run))>>
            \o lex_runs(stripped, Tail(runs), run_end, begin, punct)

RECURSIVE lex_words(_, _, _)
\* the outer loop of lex over the pieces between whitespace
lex_words(string, words, search_start) ==
    IF words = <<>> THEN <<>>
    ELSE IF Head(words) = <<>> THEN lex_words(string, Tail(words), search_start)
    ELSE LET stripped == Head(words)
             begin == find(string, stripped, search_start)
             end == begin + Len(stripped)
             here ==
                 IF Str(stripped) \in punctuation
                 THEN <<Token(stripped, begin, end, Punctuation)>>
                 ELSE IF Str(stripped) \in keywords
                 THEN <<Token(stripped, begin, end, Keyword)>>
                 ELSE lex_runs(stripped,
                               split(stripped, {stripped[i] : i \in {j \in 1..Len(stripped) : ~is_punctuation(stripped[j])}}),
                               0, begin, TRUE)
                      \o lex_runs(stripped,
                                  split(stripped, {stripped[i] : i \in {j \in 1..Len(stripped) : is_punctuation(stripped[j])}}),
                                  0, begin, FALSE)
         IN here \o lex_words(string, Tail(words), end)

RECURSIVE sort(_)
\* flux::sort by begin (an insertion sort: the order of equal keys is kept)
sort(results) ==
    IF results = <<>> THEN <<>>
    ELSE LET rest == sort(Tail(results))
             first == Head(results)
             before == SelectSeq(rest, LAMBDA t : t.begin < first.begin)
             after == SelectSeq(rest, LAMBDA t : ~(t.begin < first.begin))
         IN before \o <<first>> \o after

lex(string) ==
    sort(lex_words(string,
                   split(string, {string[i] : i \in {j \in 1..Len(string) : is_whitespace(string[j])}}), 0))

\* a prefix test that holds only for the prefix itself
starts_with_whole(text, prefix) == text = prefix

starts_with(text, prefix) ==
    Len(text) >= Len(prefix) /\ SubSeq(text, 1, Len(prefix)) = prefix

\* the body of the loop of parse for the token at cursor; prev_cursor and prev_prev_cursor are
\* those of the two tokens before it, 0 when there is none
classify(tokens, cursor, prev_cursor, prev_prev_cursor) ==
    LET token == tokens[cursor]
        prev_token == tokens[prev_cursor]
        set(i, sub) == [tokens EXCEPT ![i].kind = Identifier(sub)]
    IN IF Str(token.text) = "operator" THEN set(cursor, "Function")
       ELSE IF token.kind.tag = "Identifier"
       THEN IF prev_cursor # 0
            THEN IF prev_token.kind = Keyword
                 THEN IF Str(prev_token.text) = "namespace" THEN set(cursor, "Namespace")
                      ELSE IF Str(prev_token.text) = "auto" THEN set(cursor, "Variable")
                      ELSE set(cursor, "Type")
                 ELSE IF prev_token.kind = Punctuation
                 THEN IF Str(prev_token.text) = "::(" THEN set(cursor, "Type")
                      ELSE IF starts_with(prev_token.text, <<":", ":">>)
                      THEN set(cursor, "Namespace")
                      ELSE IF prev_prev_cursor # 0
                      THEN IF \/ tokens[prev_prev_cursor].kind = Keyword
                              \/ Head(prev_token.text) = "("
                           THEN set(cursor, "Type")
                           ELSE set(cursor, "Variable")
                      ELSE tokens
                 ELSE IF prev_token.kind.tag = "Identifier"
                      THEN [tokens EXCEPT ![prev_cursor].kind = Identifier("Type"),
                                          ![cursor].kind = Identifier("Variable")]
                      ELSE set(cursor, "Variable")
            ELSE set(cursor, "Namespace")
       ELSE IF token.kind = Punctuation /\ prev_cursor # 0
       THEN IF Str(prev_token.text) = "operator" THEN set(prev_cursor, "Function")
            ELSE IF prev_token.kind.tag = "Identifier"
            THEN IF starts_with(token.text, <<":", ":">>) THEN set(prev_cursor, "Namespace")
                 ELSE IF starts_with(token.text, <<"{">>) /\ token.begin = prev_token.end
                 THEN set(prev_cursor, "Type")
                 ELSE IF \/ Str(token.text) = "<"
                         \/ /\ starts_with(token.text, <<">">>)
                            /\ (Str(token.text) # ">>" \/ prev_token.kind.sub # "Variable")
                 THEN set(prev_cursor, "Type")
                 ELSE IF Head(token.text) = "(" THEN set(prev_cursor, "Function")
                 ELSE IF /\ Str(token.text) # "="
                         /\ Head(token.text) # "("
                         /\ Head(token.text) # "{"
                         /\ ~starts_with(token.text, <<":", ":">>)
                 THEN set(prev_cursor, "Variable")
                 ELSE tokens
            ELSE tokens
       ELSE tokens

RECURSIVE parse_from(_, _)
\* the loop of parse from the token at cursor on
parse_from(tokens, cursor) ==
    IF cursor > Len(tokens) THEN tokens
    ELSE parse_from(classify(tokens, cursor, cursor - 1, IF cursor >= 2 THEN cursor - 2 ELSE 0),
                    cursor + 1)

parse(string) == parse_from(lex(string), 1)

\* fmt::styled(text, fmt::fg(color)) as fmt::format prints it: the bytes of
\* text between the escape that sets the colour and the one that resets it
styled(text, color) ==
    <<[esc |-> TRUE, text |-> color]>>
    \o [i \in 1..Len(text) |-> [esc |-> FALSE, text |-> text[i]]]
    \o <<[esc |-> TRUE, text |-> "reset"]>>

RECURSIVE fmt_string(_, _, _)
\* the format string highlight builds: the text between the tokens, and one
\* replacement field for each token
fmt_string(str, tokens, last_index) ==
    IF tokens = <<>> THEN <<>>
    ELSE LET token == Head(tokens)
         IN (IF token.begin # last_index
             THEN substr(str, last_index, token.begin)
             ELSE <<>>)
            \o <<"{}">> \o fmt_string(str, Tail(tokens), token.end)

RECURSIVE fmt_format(_, _)
\* fmt::format(fmt::runtime(fs), args...)
fmt_format(fs, args) ==
    IF fs = <<>> THEN <<>>
    ELSE IF Head(fs) = "{}"
         THEN Head(args) \o fmt_format(Tail(fs), Tail(args))
         ELSE <<[esc |-> FALSE, text |-> Head(fs)]>> \o fmt_format(Tail(fs), args)

get_color(table, kind) == table[to_string(kind)]

get_data(str, token, table) ==
    styled(substr(str, token.begin, token.end), get_color(table, token.kind))

\* highlight(str, for_backtrace) with the colour table as it is during the call
highlight(str, for_backtrace, table) ==
    LET tokens == parse(str)
    IN IF tokens = <<>> THEN [i \in 1..Len(str) |-> [esc |-> FALSE, text |-> str[i]]]
       ELSE IF Len(tokens) = 1 /\ for_backtrace
       THEN fmt_format(fmt_string(str, tokens, 0),
                       <<get_data(str, [tokens[1] EXCEPT !.kind = Identifier("Function")],
                                  table)>>)
       ELSE fmt_format(fmt_string(str, tokens, 0),
                       [i \in 1..Len(tokens) |-> get_data(str, tokens[i], table)])

\* the text left when the styling escapes are removed
Strip(out) ==
    LET kept == SelectSeq(out, LAMBDA x : ~x.esc)
    IN [i \in 1..Len(kept) |-> kept[i].text]

InitLex ==
    /\ mode = "debug"
    /\ PanicInit
    /\ dec = NoDec
    /\ colors = get_colors
    /\ reg = NoReg
    /\ hl = NoHl
    /\ trace = [pc |-> "idle", backtrace |-> <<>>, style |-> "Unstyled", output |-> <<>>]
    /\ fm = [pc |-> "idle", operands |-> <<>>, ops |-> <<>>, out |-> <<>>]
    /\ fn = NoFn
    /\ \E n \in 0..MaxLen :
          \E str \in [1..n -> Alphabet], b \in BOOLEAN :
             lx = [NoLex EXCEPT !.str = str, !.for_backtrace = b]

\* detail::parser::parse(str)
Parse ==
    /\ lx.pc = "idle"
    /\ lx' = [lx EXCEPT !.pc = "parsed", !.tokens = parse(lx.str)]
    /\ UNCHANGED <<panicVars, dec, colors, reg, hl, trace, fm, fn>>

\* highlight::highlight(str, for_backtrace)
Highlight ==
    /\ lx.pc = "parsed"
    /\ lx' = [lx EXCEPT !.pc = "highlighted",
                        !.out = highlight(lx.str, lx.for_backtrace, colors)]
    /\ UNCHANGED <<panicVars, dec, colors, reg, hl, trace, fm, fn>>

NextLex ==
    \/ Parse
    \/ Highlight

SpecLex == InitLex /\ [][NextLex]_vars

-----------------------------------------------------------------------------
(* Claims about the parser and the highlighter *)

Whitespace == {" ", "\n", "\r", "\t", "\\v"}

\* C12: the tokens parse returns are in strictly ascending begin, no token
\* reaches into the next one, every token is a non-empty range inside the
\* string, and its text is the bytes of the string in that range.
C12_TokensOrderedAndExact ==
    lx.pc # "idle" =>
        /\ \A i \in 1..Len(lx.tokens) :
              LET t == lx.tokens[i]
              IN /\ t.begin >= 0
                 /\ t.begin < t.end
                 /\ t.end <= Len(lx.str)
                 /\ t.text = substr(lx.str, t.begin, t.end)
        /\ \A i \in 1..(Len(lx.tokens) - 1) :
              /\ lx.tokens[i].begin < lx.tokens[i + 1].begin
              /\ lx.tokens[i].end <= lx.tokens[i + 1].begin

\* a parsed string in which the same word occurs twice and a word holds both
\* punctuation and identifier runs
C12_Witness ==
    /\ lx.pc = "parsed"
    /\ Len(lx.tokens) >= 3
    /\ \E i, j \in 1..Len(lx.tokens) : i # j /\ lx.tokens[i].text = lx.tokens[j].text
    /\ \E i \in 1..(Len(lx.tokens) - 1) :
          /\ lx.tokens[i].end = lx.tokens[i + 1].begin
          /\ lx.tokens[i].kind # lx.tokens[i + 1].kind

\* the tokens whose range holds position p
Covering(p) == {i \in 1..Len(lx.tokens) : lx.tokens[i].begin <= p /\ p < lx.tokens[i].end}

\* C13: every byte that is not whitespace lies in the range of exactly one
\* token, no whitespace byte lies in any, and a string without any other byte
\* gives no tokens.
C13_TokensCoverNonWhitespace ==
    lx.pc # "idle" =>
        /\ \A p \in 0..(Len(lx.str) - 1) :
              IF lx.str[p + 1] \in Whitespace
              THEN Covering(p) = {}
              ELSE Cardinality(Covering(p)) = 1
        /\ (\A p \in 1..Len(lx.str) : lx.str[p] \in Whitespace) => lx.tokens = <<>>

\* a parsed string with whitespace before, between and after its tokens
C13_Witness ==
    /\ lx.pc = "parsed"
    /\ Len(lx.str) >= 4
    /\ Head(lx.str) \in Whitespace
    /\ lx.str[Len(lx.str)] \in Whitespace
    /\ Len(lx.tokens) >= 2

\* C14: removing the styling escapes from highlight(S) gives back S.
C14_StripHighlightIsIdentity ==
    lx.pc = "highlighted" => Strip(lx.out) = lx.str

-----------------------------------------------------------------------------
(* The colour table (highlight.cpp): registration and lookup by one thread, *)
(* and a highlight call running while another thread registers a colour.    *)

\* colours registered in one run, counting every entry of a list
MaxRegs == 3

\* a table in which the kinds that hold the same colour share one entry
set_color_shared(table, _highlight) ==
    [name \in DOMAIN table |->
        IF table[name] = table[to_string(_highlight.kind)]
        THEN _highlight.color
        ELSE table[name]]

\* get_colors()[to_string(kind)] = color: operator[] adds the entry when the
\* table has none under that name
set_color(table, _highlight) ==
    LET key == to_string(_highlight.kind)
    IN [name \in DOMAIN table \cup {key} |->
           IF name = key THEN _highlight.color ELSE table[name]]

RECURSIVE set_colors_first_wins(_, _)
\* a set_colors that keeps the first colour a list gives for a kind
set_colors_first_wins(table, list) ==
    IF list = <<>> THEN table
    ELSE set_color(set_colors_first_wins(table, Tail(list)), Head(list))

RECURSIVE set_colors(_, _)
\* set_colors: flux::for_each over the list, in order
set_colors(table, list) ==
    IF list = <<>> THEN table
    ELSE set_colors(set_color(table, Head(list)), Tail(list))

\* the colour most recently registered for each kind, after this list
Registered(last, list) ==
    [k \in TokenKinds |->
        LET at == {i \in 1..Len(list) : list[i].kind = k}
        IN IF at = {} THEN last[k]
           ELSE list[CHOOSE i \in at : \A j \in at : j <= i].color]

\* set_color(highlight), any of its overloads
SetColor ==
    /\ reg.n < MaxRegs
    /\ \E h \in Highlights :
          /\ colors' = set_color(colors, h)
          /\ reg' = [n |-> reg.n + 1, last |-> Registered(reg.last, <<h>>),
                     got |-> NoReg.got]
    /\ UNCHANGED <<panicVars, dec, hl, lx, trace, fm, fn>>

\* set_colors(list), either overload
SetColors ==
    /\ reg.n + 2 <= MaxRegs
    /\ \E h1 \in Highlights, h2 \in Highlights :
          /\ colors' = set_colors(colors, <<h1, h2>>)
          /\ reg' = [n |-> reg.n + 2, last |-> Registered(reg.last, <<h1, h2>>),
                     got |-> NoReg.got]
    /\ UNCHANGED <<panicVars, dec, hl, lx, trace, fm, fn>>

\* get_color(kind): operator[] on the table, which adds a default-constructed
\* (white) entry when the table has none under the name of the kind
GetColor ==
    /\ \E k \in TokenKinds :
          /\ reg' = [reg EXCEPT !.got = [kind |-> k, color |-> get_color(colors, k)]]
          /\ colors' = [name \in DOMAIN colors \cup {to_string(k)} |->
                           IF name \in DOMAIN colors THEN colors[name] ELSE "0xffffff"]
    /\ UNCHANGED <<panicVars, dec, hl, lx, trace, fm, fn>>

NextColor ==
    \/ SetColor
    \/ SetColors
    \/ GetColor

InitColor ==
    /\ mode = "debug"
    /\ PanicInit
    /\ dec = NoDec
    /\ AuxInit

SpecColor == InitColor /\ [][NextColor]_vars

\* the strings highlighted while colours are being registered
HighlightInputs ==
    {<<"0", " ", "0">>, <<"f", "(", "0">>, <<"i", "f", " ", "f">>}

\* highlight(str) is called: the string is parsed
HighlightBegin ==
    /\ hl.pc = "idle"
    /\ \E str \in HighlightInputs :
          hl' = [hl EXCEPT !.pc = "formatting", !.tokens = parse(str)]
    /\ UNCHANGED <<panicVars, dec, colors, reg, lx, trace, fm, fn>>

\* get_data(token) for the next token: get_color reads the table, with no lock
\* held; a read that overlaps a write of the other thread is a data race,
\* and may see the colour from before or from after the write
HighlightGetColor ==
    /\ hl.pc = "formatting"
    /\ Len(hl.styled) < Len(hl.tokens)
    /\ LET token == hl.tokens[Len(hl.styled) + 1]
       IN \E color \in {get_color(colors, token.kind)}
                       \cup (IF hl.writing
                             THEN {get_color(set_color(colors, hl.highlight), token.kind)}
                             ELSE {}) :
             hl' = [hl EXCEPT !.styled = Append(@, color),
                              !.epochs = Append(@, hl.epoch),
                              !.raced = @ \/ hl.writing]
    /\ UNCHANGED <<panicVars, dec, colors, reg, lx, trace, fm, fn>>

\* fmt::format returns and highlight with it
HighlightEnd ==
    /\ hl.pc = "formatting"
    /\ Len(hl.styled) = Len(hl.tokens)
    /\ hl' = [hl EXCEPT !.pc = "done"]
    /\ UNCHANGED <<panicVars, dec, colors, reg, lx, trace, fm, fn>>

\* another thread calls set_color(highlight) and starts to write the table
SetColorBegin ==
    /\ ~hl.writing
    /\ hl.epoch < MaxRegs
    /\ \E h \in Highlights : hl' = [hl EXCEPT !.writing = TRUE, !.highlight = h]
    /\ UNCHANGED <<panicVars, dec, colors, reg, lx, trace, fm, fn>>

\* the write of set_color is complete
SetColorEnd ==
    /\ hl.writing
    /\ colors' = set_color(colors, hl.highlight)
    /\ hl' = [hl EXCEPT !.writing = FALSE, !.epoch = @ + 1]
    /\ UNCHANGED <<panicVars, dec, reg, lx, trace, fm, fn>>

NextHighlight ==
    \/ HighlightBegin
    \/ HighlightGetColor
    \/ HighlightEnd
    \/ SetColorBegin
    \/ SetColorEnd

SpecHighlight == InitColor /\ [][NextHighlight]_vars

-----------------------------------------------------------------------------
(* Claims about the colour table *)

\* C11: a highlight call that runs while another thread registers a colour
\* colours all its tokens from one state of the table, and none of its reads
\* of the table overlaps a write.
C11_HighlightSeesOneTable ==
    hl.pc = "done" =>
        /\ ~hl.raced
        /\ \A i, j \in 1..Len(hl.epochs) : hl.epochs[i] = hl.epochs[j]

\* C15: once a colour is registered for a kind, alone or as the last entry
\* for the kind in a list, get_color of the kind returns that colour until a
\* later registration for the kind.
C15_GetColorReturnsRegistered ==
    /\ \A k \in TokenKinds : reg.last[k] # "none" => get_color(colors, k) = reg.last[k]
    /\ (reg.got.color # "none" /\ reg.last[reg.got.kind] # "none")
          => reg.got.color = reg.last[reg.got.kind]

\* three colours were registered, and get_color returned the colour last
\* registered for an identifier kind while another kind holds the other colour
C15_Witness ==
    /\ reg.n = 3
    /\ reg.got.kind.tag = "Identifier"
    /\ reg.got.color = "0x0000ff"
    /\ reg.last[reg.got.kind] = "0x0000ff"
    /\ \E k \in TokenKinds : k # reg.got.kind /\ reg.last[k] = "0xff0000"

-----------------------------------------------------------------------------
(* format_backtrace (backtrace.cpp). The output is the sequence of the pieces *)
(* appended to it, each a sequence of bytes and styling escapes.              *)

MaxFrames == 3

\* boost::stacktrace::frame: an empty frame has no address, hence no name or file
Frames ==
    {[empty |-> TRUE, name |-> <<>>, file |-> <<>>, line |-> 0]}
    \cup [empty : {FALSE}, name : {<<>>, <<"f">>},
          file : {<<>>, <<"a", ".", "c">>}, line : {0, 7}]

\* format_frame_to(str, frame, index, styled): what it appends to str
format_frame_to(frame, index, is_styled, table) ==
    LET num_color == get_color(table, Numeric)
        str_color == get_color(table, String)
        punc_color == get_color(table, Punctuation)
        plain(text) == [i \in 1..Len(text) |-> [esc |-> FALSE, text |-> text[i]]]
        piece(part, out) == <<[part |-> part, out |-> out]>>
        name == frame.name
        file == frame.file
        line == frame.line
    IN IF is_styled
       THEN piece("index", styled(<<ToString(index)>>, num_color)
                           \o styled(<<"#">>, punc_color))
            \o piece("address", plain(<<" ">>) \o styled(<<"0x">>, num_color)
                                \o styled(<<"address">>, num_color))
            \o (IF name # <<>>
                THEN piece("name", plain(<<" ">>) \o highlight(name, TRUE, table))
                ELSE <<>>)
            \o (IF file # <<>>
                THEN piece("file", plain(<<"\n", " ">>)
                                   \o styled(<<"in [">>, punc_color)
                                   \o styled(file, str_color)
                                   \o (IF line = 0 THEN <<>>
                                       ELSE styled(<<":">>, punc_color)
                                            \o styled(<<ToString(line)>>, num_color))
                                   \o styled(<<"]">>, punc_color))
                ELSE <<>>)
            \o (IF name = <<>> /\ file = <<>>
                THEN piece("no info", plain(<<" ">>) \o styled(<<"[no info]">>, punc_color))
                ELSE <<>>)
            \o piece("end", plain(<<"\n">>))
       ELSE piece("index", plain(<<ToString(index), "#">>))
            \o piece("address", plain(<<" ", "0x", "address">>))
            \o (IF name # <<>> THEN piece("name", plain(<<" ">> \o name)) ELSE <<>>)
            \o (IF file # <<>>
                THEN piece("file", plain(<<"\n", " ", " in [">> \o file
                                         \o (IF line = 0 THEN <<>>
                                             ELSE <<":", ToString(line)>>)
                                         \o <<"]">>))
                ELSE <<>>)
            \o (IF name = <<>> /\ file = <<>>
                THEN piece("no info", plain(<<" [no info]">>))
                ELSE <<>>)
            \o piece("end", plain(<<"\n">>))

RECURSIVE format_frames_unfiltered(_, _, _, _)
\* a loop that formats every frame, the empty ones too
format_frames_unfiltered(backtrace, index, is_styled, table) ==
    IF ~(index < Len(backtrace)) THEN <<>>
    ELSE format_frame_to(backtrace[index + 1], index, is_styled, table)
         \o format_frames_unfiltered(backtrace, index + 1, is_styled, table)

RECURSIVE format_frames(_, _, _, _)
\* the loop of format_backtrace from index on
format_frames(backtrace, index, is_styled, table) ==
    IF ~(index < Len(backtrace)) THEN <<>>
    ELSE (IF ~backtrace[index + 1].empty
          THEN format_frame_to(backtrace[index + 1], index, is_styled, table)
          ELSE <<>>)
         \o format_frames(backtrace, index + 1, is_styled, table)

format_backtrace(backtrace, style, table) ==
    format_frames(backtrace, 0, style = "Styled", table)

InitBacktrace ==
    /\ mode = "debug"
    /\ PanicInit
    /\ dec = NoDec
    /\ colors = get_colors
    /\ reg = NoReg
    /\ hl = NoHl
    /\ lx = NoLex
    /\ fm = [pc |-> "idle", operands |-> <<>>, ops |-> <<>>, out |-> <<>>]
    /\ fn = NoFn
    /\ \E n \in 0..MaxFrames :
          \E backtrace \in [1..n -> Frames], style \in {"Styled", "Unstyled"} :
             trace = [pc |-> "idle", backtrace |-> backtrace, style |-> style,
                   output |-> <<>>]

\* format_backtrace(backtrace, style)
FormatBacktrace ==
    /\ trace.pc = "idle"
    /\ trace' = [trace EXCEPT !.pc = "formatted",
                        !.output = format_backtrace(trace.backtrace, trace.style, colors)]
    /\ UNCHANGED <<panicVars, dec, colors, reg, hl, lx, fm, fn>>

SpecBacktrace == InitBacktrace /\ [][FormatBacktrace]_vars

-----------------------------------------------------------------------------
(* Claims about format_backtrace *)

RECURSIVE NonEmptyIndices(_, _)
\* the printed indices of the non-empty frames from index on, in frame order
NonEmptyIndices(backtrace, index) ==
    IF index >= Len(backtrace) THEN <<>>
    ELSE (IF backtrace[index + 1].empty THEN <<>> ELSE <<ToString(index)>>)
         \o NonEmptyIndices(backtrace, index + 1)

\* the entries of a formatted backtrace: the index each one starts with
Entries(output) ==
    LET heads == SelectSeq(output, LAMBDA p : p.part = "index")
    IN [i \in 1..Len(heads) |-> Strip(heads[i].out)[1]]

\* C16: the formatted backtrace has one entry for each non-empty frame, in
\* frame order, each closed by one newline, and nothing for an empty frame.
C16_OneEntryPerNonEmptyFrame ==
    trace.pc = "formatted" =>
        /\ Entries(trace.output) = NonEmptyIndices(trace.backtrace, 0)
        /\ Len(SelectSeq(trace.output, LAMBDA p : p.part = "end"))
              = Len(NonEmptyIndices(trace.backtrace, 0))
        /\ (trace.output # <<>>) =>
              /\ trace.output[1].part = "index"
              /\ trace.output[Len(trace.output)].part = "end"
              /\ \A i \in 1..(Len(trace.output) - 1) :
                    (trace.output[i].part = "end") <=> (trace.output[i + 1].part = "index")

\* a formatted backtrace with an empty frame between two non-empty ones
C16_Witness ==
    /\ trace.pc = "formatted"
    /\ Len(trace.backtrace) = 3
    /\ ~trace.backtrace[1].empty
    /\ trace.backtrace[2].empty
    /\ ~trace.backtrace[3].empty
    /\ Len(Entries(trace.output)) = 2

-----------------------------------------------------------------------------
(* fmt::formatter<BinaryExpression> (decomposer.h): how an expression is    *)
(* printed when its operands may lack a formatter or a stream operator.     *)

\* what can print an operand's type: fmt ("formattable", "string" when the
\* type also converts to std::string_view), only operator<< ("streamable"),
\* or nothing ("neither"); text is what fmt or operator<< prints for it
Operands ==
    {[cls |-> "formattable", text |-> <<"1">>], [cls |-> "string", text |-> <<"a">>],
     [cls |-> "streamable", text |-> <<"s">>], [cls |-> "neither", text |-> <<"n">>]}

NotFormattable ==
    <<"(", "N", "o", "t", "F", "o", "r", "m", "a", "t", "t", "a", "b", "l", "e", ")">>

\* a formatter that streams the left operand whatever its type
formatted_lhs_streamed(lhs, op, rhs) ==
    lhs.text \o <<" ">> \o op \o <<" ">>
    \o (IF rhs.cls = "neither" THEN NotFormattable ELSE rhs.text)

\* the lambda formatted of the leaf branch of formatter<BinaryExpression>::format
formatted(lhs, op, rhs) ==
    LET formattable(x) == x.cls \in {"formattable", "string"}
        convertible(x) == x.cls = "string"
        OutputStreamable(x) == x.cls \in {"formattable", "string", "streamable"}
        quoted(x) == <<"\"">> \o x.text \o <<"\"">>
        mid == <<" ">> \o op \o <<" ">>
    IN IF formattable(lhs) /\ formattable(rhs)
       THEN (IF convertible(lhs) THEN quoted(lhs) ELSE lhs.text) \o mid
            \o (IF convertible(rhs) THEN quoted(rhs) ELSE rhs.text)
       ELSE IF formattable(lhs)
       THEN (IF convertible(lhs) THEN quoted(lhs) ELSE lhs.text) \o mid
            \o (IF OutputStreamable(rhs) THEN rhs.text ELSE NotFormattable)
       ELSE IF formattable(rhs)
       THEN (IF OutputStreamable(lhs) THEN lhs.text ELSE NotFormattable) \o mid
            \o (IF convertible(rhs) THEN quoted(rhs) ELSE rhs.text)
       ELSE IF OutputStreamable(lhs) /\ OutputStreamable(rhs)
       THEN lhs.text \o mid \o rhs.text
       ELSE IF OutputStreamable(lhs) THEN lhs.text \o mid \o NotFormattable
       ELSE IF OutputStreamable(rhs) THEN NotFormattable \o mid \o rhs.text
       ELSE NotFormattable \o mid \o NotFormattable

RECURSIVE format(_, _, _, _)
\* formatter<BinaryExpression>::format for the expression made of the first
\* n + 1 operands: a leaf for n = 1, else the nested branch
format(operands, ops, n, table) ==
    IF n = 1
    THEN highlight(formatted(operands[1], ops[1], operands[2]), FALSE, table)
    ELSE LET punc_color == get_color(table, Punctuation)
             rhs == operands[n + 1]
         IN styled(<<"(">>, punc_color) \o format(operands, ops, n - 1, table)
            \o styled(<<")">>, punc_color) \o <<[esc |-> FALSE, text |-> " "]>>
            \o styled(ops[n], punc_color) \o <<[esc |-> FALSE, text |-> " "]>>
            \o highlight(IF rhs.cls = "neither" THEN NotFormattable ELSE rhs.text,
                         FALSE, table)

InitFormat ==
    /\ mode = "debug"
    /\ PanicInit
    /\ dec = NoDec
    /\ colors = get_colors
    /\ reg = NoReg
    /\ hl = NoHl
    /\ lx = NoLex
    /\ trace = [pc |-> "idle", backtrace |-> <<>>, style |-> "Unstyled", output |-> <<>>]
    /\ fn = NoFn
    /\ \E n \in 1..(MaxOperands - 1) :
          \E operands \in [1..(n + 1) -> Operands],
             ops \in [1..n -> {<<"=", "=">>, <<"+">>}] :
             fm = [pc |-> "idle", operands |-> operands, ops |-> ops, out |-> <<>>]

\* fmt::format("{}", decomposition)
FormatExpression ==
    /\ fm.pc = "idle"
    /\ fm' = [fm EXCEPT !.pc = "formatted",
                        !.out = format(fm.operands, fm.ops, Len(fm.ops), colors)]
    /\ UNCHANGED <<panicVars, dec, colors, reg, hl, lx, trace, fn>>

SpecFormat == InitFormat /\ [][FormatExpression]_vars

-----------------------------------------------------------------------------
(* Claims about the formatter of decompositions *)

\* what the claim expects in the position of an operand
Shown(operand, leaf) ==
    IF operand.cls = "neither" THEN NotFormattable
    ELSE IF leaf /\ operand.cls = "string" THEN <<"\"">> \o operand.text \o <<"\"">>
    ELSE operand.text

RECURSIVE Expected(_, _, _)
\* the text expected for the expression made of the first n + 1 operands
Expected(operands, ops, n) ==
    IF n = 1
    THEN Shown(operands[1], TRUE) \o <<" ">> \o ops[1] \o <<" ">> \o Shown(operands[2], TRUE)
    ELSE <<"(">> \o Expected(operands, ops, n - 1) \o <<")", " ">> \o ops[n] \o <<" ">>
         \o Shown(operands[n + 1], FALSE)

\* C17: an operand that nothing can print is rendered as (NotFormattable) in
\* its position, on either side of a leaf expression and on the right of a
\* nested one, and the operator and the other operands are rendered as usual.
C17_NotFormattableInPlace ==
    fm.pc = "formatted" => Strip(fm.out) = Expected(fm.operands, fm.ops, Len(fm.ops))

\* a nested expression whose innermost left operand and whose right operand
\* cannot be printed, while the operand between them can
C17_Witness ==
    /\ fm.pc = "formatted"
    /\ Len(fm.ops) = 2
    /\ fm.operands[1].cls = "neither"
    /\ fm.operands[2].cls = "formattable"
    /\ fm.operands[3].cls = "neither"
    /\ Len(SelectSeq(fm.out, LAMBDA x : ~x.esc /\ x.text = "N")) = 2

-----------------------------------------------------------------------------
(* Claims about the default handler and the assertion message *)

\* the segments of a complete diagnostic are on stderr
Complete(out, panic_message, location, backtrace) ==
    /\ \E i \in 1..Len(out) :
          out[i].seg = "header" /\ out[i].text = <<"Panic occurred at", location, ":">>
    /\ panic_message # <<>> =>
          \E i \in 1..Len(out) : out[i].seg = "message" /\ out[i].text = panic_message
    /\ \E i \in 1..(Len(out) - 1) :
          /\ out[i].seg = "title"
          /\ out[i + 1].seg = "backtrace" /\ out[i + 1].text = <<backtrace>>

RECURSIVE IsSubsequence(_, _)
\* a can be obtained from b by leaving elements out
IsSubsequence(a, b) ==
    IF a = <<>> THEN TRUE
    ELSE IF b = <<>> THEN FALSE
    ELSE IF Head(a) = Head(b) THEN IsSubsequence(Tail(a), Tail(b))
    ELSE IsSubsequence(a, Tail(b))

\* C19: what one panic writes to stderr through the default handler is, in
\* this order: the header with the source location, a blank line, the
\* message, a blank line, "Backtrace:" and the backtrace. No segment is
\* written out of this order, and a panic with a message writes all of them.
C19_SegmentsInOrder ==
    (pc \in {"printed", "aborted", "trapped", "returned"} /\ cur.call.h = DefaultHandler) =>
        LET out == cur.stderr
            segs == [i \in 1..Len(out) |-> out[i].seg]
            order == <<"header", "blank", "message", "blank", "title", "backtrace">>
        IN /\ IsSubsequence(segs, order)
           /\ out[1] = [seg |-> "header", text |-> <<"Panic occurred at", cur.loc, ":">>]
           /\ out[Len(out)] = [seg |-> "backtrace", text |-> <<cur.bt>>]
           /\ out[Len(out) - 1].seg = "title"
           /\ cur.msg # <<>> => (segs = order /\ out[3].text = cur.msg)

\* a failed assertion with a context message was printed by the default handler
C19_Witness ==
    /\ pc = "printed"
    /\ cur.src = "assert"
    /\ cur.call.h = DefaultHandler
    /\ Len(cur.msg) > 7
    /\ Len(cur.stderr) = 6

\* C20: the message of a failing assertion is, in this order: the label of the
\* kind and "Assertion Failed:" with the condition, "Where:" with the
\* condition, "Evaluated To:" with the decomposition, and then a "Context
\* Message:" section with the formatted user message exactly when one was given.
C20_AssertionMessageLayout ==
    [][\A k \in Kinds, c \in BOOLEAN, x \in Contexts, s \in CallSites :
          (AssertionHandler(k, c, x, s[1], s[2]) /\ ~c) =>
             LET msg == cur'.msg
             IN /\ Len(msg) >= 7
                /\ SubSeq(msg, 1, 7) = <<AssertionLabel(k), "Assertion Failed:", "condition",
                                         "Where:", "condition",
                                         "Evaluated To:", "decomposition">>
                /\ x.present <=> Len(msg) > 7
                /\ x.present =>
                      /\ msg[8] = "Context Message:"
                      /\ IsFormatted(x.fs, x.args, SubSeq(msg, 9, Len(msg)))]_vars

\* a failing assertion whose message has the context section
C20_Witness ==
    /\ pc = "entered"
    /\ cur.src = "assert"
    /\ ~cur.cond
    /\ Len(cur.msg) > 8
    /\ cur.msg[8] = "Context Message:"

\* C21: the message of a failing assertion starts with the label of its kind:
\* "Debug", "Requirement", "Fatal", "Contract Violation:\nPre-condition" for a
\* pre-condition and "Contract Violation:\nPost-condition" for a post-condition.
C21_MessageStartsWithLabel ==
    (pc = "entered" /\ cur.src = "assert" /\ ~cur.cond) =>
        cur.msg[1] = CASE cur.kind = "Debug" -> "Debug"
                       [] cur.kind = "Requirement" -> "Requirement"
                       [] cur.kind = "Fatal" -> "Fatal"
                       [] cur.kind = "Precondition" -> "Contract Violation:\nPre-condition"
                       [] cur.kind = "Postcondition" -> "Contract Violation:\nPost-condition"

-----------------------------------------------------------------------------
(* highlight.h: the colour value classes *)

MaxChannel == 2

\* some values of one of the u8 channels red, green and blue
Channels == 0..MaxChannel

\* fmt::terminal_color: black .. white and bright_black .. bright_white
TerminalColors == (30..37) \cup (90..97)

\* std::optional: empty, or holding a value
nullopt == [has_value |-> FALSE]

optional(value) == [has_value |-> TRUE, value |-> value]

\* RgbColor::RgbColor(u32 hex)
RgbColor(hex) ==
    [red |-> (hex \div 65536) % 256, green |-> (hex \div 256) % 256, blue |-> hex % 256]

\* the constructors of Color: Color(), Color(RgbColor), Color(fmt::terminal_color)
\* and Color(u32 rgb_hex); m_value is the union storage and `member` its
\* active member; 16777215 is 0xFFFFFF
Color(ctor, value) ==
    CASE ctor = "default" ->
             [m_is_term |-> FALSE,
              m_value |-> [member |-> "rgb_color", value |-> RgbColor(16777215)]]
      [] ctor = "RgbColor" ->
             [m_is_term |-> FALSE, m_value |-> [member |-> "rgb_color", value |-> value]]
      [] ctor = "terminal_color" ->
             [m_is_term |-> TRUE, m_value |-> [member |-> "term_color", value |-> value]]
      [] ctor = "u32" ->
             [m_is_term |-> FALSE,
              m_value |-> [member |-> "rgb_color", value |-> RgbColor(value)]]

is_term_color(self) == self.m_is_term

is_rgb_color(self) == self.m_is_term

rgb_color(self) == IF self.m_is_term THEN nullopt ELSE optional(self.m_value.value)

\* the Colors a program constructs
ConstructedColors ==
    {Color("default", 0)}
        \cup {Color("RgbColor", [red |-> r, green |-> g, blue |-> b]) :
                  r \in Channels, g \in Channels, b \in Channels}
        \cup {Color("terminal_color", t) : t \in TerminalColors}
        \cup {Color("u32", r * 65536 + (255 - g) * 256 + b) :
                  r \in Channels, g \in Channels, b \in Channels}

\* a Color is constructed
ColorConstruct ==
    /\ fn.pc = "idle"
    /\ \E color \in ConstructedColors : fn' = [pc |-> "constructed", color |-> color]
    /\ UNCHANGED <<panicVars, dec, colors, reg, hl, lx, trace, fm>>

\* its observers are called
ColorObserve ==
    /\ fn.pc = "constructed"
    /\ fn' = [pc |-> "observed", color |-> fn.color,
              is_term_color |-> is_term_color(fn.color),
              is_rgb_color |-> is_rgb_color(fn.color),
              rgb_color |-> rgb_color(fn.color)]
    /\ UNCHANGED <<panicVars, dec, colors, reg, hl, lx, trace, fm>>

\* C22: is_rgb_color() is true exactly when the Color represents an RgbColor,
\* that is when rgb_color() holds a value and is_term_color() is false.
C22_IsRgbColorExact ==
    fn.pc = "observed" =>
        (fn.is_rgb_color <=> (fn.rgb_color.has_value /\ ~fn.is_term_color))

-----------------------------------------------------------------------------
(* decomposer.h: a decomposition evaluated more than once *)

MaxExprs == 3

\* decomposition.expr() called again on a decomposition that was evaluated
ExprAgain ==
    /\ dec.phase \in {"passed", "failed"}
    /\ dec.exprs < MaxExprs
    /\ LET d == do_op(dec.d, Len(dec.d.chain))
       IN \E v \in IF d.s.ub THEN AnyValue ELSE {d.s.v} :
             dec' = [dec EXCEPT !.phase = IF v # 0 THEN "passed" ELSE "failed",
                                !.d = d, !.val = v, !.exprs = @ + 1]
    /\ UNCHANGED <<panicVars, aux>>

NextExpr ==
    \/ Decompose
    \/ Expr
    \/ ExprAgain

SpecExpr == InitDecomp /\ [][NextExpr]_vars

\* C23: expr() is idempotent: a further call of expr() on a decomposition,
\* whatever operators it captured, returns the value the call before it
\* returned and leaves the stored operands (the first operand and the right
\* operand of every captured operator) as they were.
C23_ExprIdempotent ==
    [][(ExprAgain /\ ~dec'.d.s.ub) =>
          (/\ dec'.val = dec.val
           /\ dec'.d.init = dec.d.init
           /\ dec'.d.chain = dec.d.chain)]_vars

-----------------------------------------------------------------------------
(* highlight.cpp: the dispatch of highlight on the number of tokens *)

MaxTokens == 201

\* indexed_call<TCurrent, TStep, TBound>::call(desired, func) up to its return
\* or its call of the next instantiation; reaching HYPERION_UNREACHABLE() is
\* undefined behaviour, after which func may or may not have been called
indexed_call(self) ==
    LET TCurrent == self.TCurrent
        TStep == self.TStep
        TBound == self.TBound
        next_step == IF TStep \div 2 = 0 /\ TCurrent > 2 /\ TCurrent < TBound - 2
                     THEN 1
                     ELSE TStep \div 2
        next == IF TCurrent + TStep < TBound THEN TCurrent + TStep ELSE TBound
    IN IF self.desired = TCurrent
       THEN {[self EXCEPT !.pc = "returned", !.invoked = Append(@, TCurrent)]}
       ELSE IF TStep = 0 /\ next_step = 0
       THEN {[self EXCEPT !.pc = "undefined", !.invoked = i] :
                i \in {self.invoked, Append(self.invoked, TCurrent)}}
       ELSE IF self.desired < TCurrent
       THEN {[self EXCEPT !.TCurrent = TCurrent - TStep, !.TStep = next_step]}
       ELSE {[self EXCEPT !.TCurrent = next, !.TStep = next_step]}

\* highlight of a string of `size` tokens, from the parse to its last
\* statement: indexed_call<mpl::Value<100>>::call(tokens.size(), unpack), where
\* TStep and TBound default to TCurrent / 2 and TCurrent * 2
HighlightDispatch(size) ==
    /\ fn.pc = "idle"
    /\ fn' = [pc |-> "call", TCurrent |-> 100, TStep |-> 100 \div 2, TBound |-> 100 * 2,
              desired |-> size, invoked |-> <<>>]
    /\ UNCHANGED <<panicVars, dec, colors, reg, hl, lx, trace, fm>>

\* the call of one instantiation of indexed_call; each instantiation
\* satisfies the constraints of the template
IndexedCall ==
    /\ fn.pc = "call"
    /\ fn.TCurrent > fn.TStep /\ fn.TCurrent <= fn.TBound /\ fn.TCurrent # 0
    /\ fn' \in indexed_call(fn)
    /\ UNCHANGED <<panicVars, dec, colors, reg, hl, lx, trace, fm>>

-----------------------------------------------------------------------------
(* decomposer.h: comparisons of integers of different signedness *)

\* the width in bits of int and unsigned int in the model; the conversion
\* between the two is modulo 2^width at every width
IntBits == 4

Comparisons == {"<", "<=", ">", ">=", "==", "!="}

\* an int and an unsigned int operand
Integers(signed) ==
    {[signed |-> signed, value |-> v] :
        v \in IF signed THEN (0 - 2^(IntBits - 1))..(2^(IntBits - 1) - 1)
                        ELSE 0..(2^IntBits - 1)}

\* Operator<op>::do_op(lhs, rhs) for a comparison of two integers: the
\* built-in operator, which converts an int operand to unsigned int when the
\* other operand is unsigned int
Operator_do_op_integers(op, lhs, rhs) ==
    LET converted(x) == IF lhs.signed /\ rhs.signed THEN x.value ELSE x.value % 2^IntBits
        l == converted(lhs)
        r == converted(rhs)
    IN CASE op = "<" -> l < r
         [] op = "<=" -> l <= r
         [] op = ">" -> l > r
         [] op = ">=" -> l >= r
         [] op = "==" -> l = r
         [] op = "!=" -> l # r

\* (ExpressionDecomposer{}->*lhs op rhs).expr() with one int and one unsigned
\* int operand: BinaryExpression stores both and do_op applies the operator
CompareIntegers ==
    /\ fn.pc = "idle"
    /\ \E op \in Comparisons, s \in Integers(TRUE), u \in Integers(FALSE), swap \in BOOLEAN :
          LET lhs == IF swap THEN u ELSE s
              rhs == IF swap THEN s ELSE u
          IN fn' = [pc |-> "compared", op |-> op, lhs |-> lhs, rhs |-> rhs,
                    result |-> Operator_do_op_integers(op, lhs, rhs)]
    /\ UNCHANGED <<panicVars, dec, colors, reg, hl, lx, trace, fm>>

\* C28: a decomposed comparison of a signed with an unsigned integer yields
\* the mathematically correct result for all operand values, negative ones
\* included.
C28_MixedSignComparisonExact ==
    fn.pc = "compared" =>
        LET l == fn.lhs.value
            r == fn.rhs.value
        IN fn.result = CASE fn.op = "<" -> l < r
                         [] fn.op = "<=" -> l <= r
                         [] fn.op = ">" -> l > r
                         [] fn.op = ">=" -> l >= r
                         [] fn.op = "==" -> l = r
                         [] fn.op = "!=" -> l # r

-----------------------------------------------------------------------------
(* Calls into the library by a program that keeps no other state *)

\* a program that so far has made no call into the library
InitCalls ==
    /\ mode = "debug"
    /\ PanicInit
    /\ dec = NoDec
    /\ AuxInit

NextCalls ==
    \/ ColorConstruct
    \/ ColorObserve
    \/ \E size \in 1..MaxTokens : HighlightDispatch(size)
    \/ IndexedCall
    \/ CompareIntegers

SpecCalls == InitCalls /\ [][NextCalls]_vars

\* C24: for every number of tokens n in 1..200 the dispatch of highlight
\* reaches the instantiation of indexed_call whose current value is n, calls
\* the callback exactly once, with n, and never reaches the unreachable branch.
C24_DispatchReachesEverySize ==
    (fn.pc \in {"call", "returned", "undefined"} /\ fn.desired \in 1..200) =>
        /\ fn.pc # "undefined"
        /\ fn.pc = "call" => (fn.invoked = <<>> /\ ENABLED IndexedCall)
        /\ fn.pc = "returned" => (fn.TCurrent = fn.desired /\ fn.invoked = <<fn.desired>>)

-----------------------------------------------------------------------------
(* Claims about the classification of identifiers by parse *)

\* the tokens of lx.str when the loop of parse has handled the first n of them
ParsedUpTo(n) == parse_from(SubSeq(lex(lx.str), 1, n), 1)

\* C25: an identifier whose previous token is Punctuation with a text that is
\* not "::(" and does not begin with "::" is classified, when parse handles
\* it, as Type if the token before the punctuation is a Keyword or the
\* punctuation begins with "(", and as Variable otherwise; this holds at every
\* position, also when the punctuation is the first token of the input.
C25_IdentifierAfterPunctuation ==
    lx.pc = "parsed" =>
        \A i \in 2..Len(lx.tokens) :
            LET tokens == ParsedUpTo(i)
                token == tokens[i]
                prev_token == tokens[i - 1]
            IN (/\ token.kind.tag = "Identifier"
                /\ Str(token.text) # "operator"
                /\ prev_token.kind = Punctuation
                /\ Str(prev_token.text) # "::("
                /\ ~starts_with(prev_token.text, <<":", ":">>))
               => token.kind = Identifier(IF \/ (i >= 3 /\ tokens[i - 2].kind = Keyword)
                                             \/ Head(prev_token.text) = "("
                                          THEN "Type"
                                          ELSE "Variable")

-----------------------------------------------------------------------------
(* parse on strings made of words *)

MaxWords == 3

\* the pieces the input strings are made of: an identifier, a number with the
\* blank after it, a blank, punctuation the parser gives a meaning, and ';'
Words == {<<"f">>, <<"0", " ">>, <<" ">>, <<":", ":">>, <<"{">>, <<"<">>, <<">">>,
          <<">", ">">>, <<"(">>, <<"=">>, <<"+">>, <<";">>}

RECURSIVE Join(_)
\* the string the words spell
Join(words) == IF words = <<>> THEN <<>> ELSE Head(words) \o Join(Tail(words))

InitWords ==
    /\ mode = "debug"
    /\ PanicInit
    /\ dec = NoDec
    /\ colors = get_colors
    /\ reg = NoReg
    /\ hl = NoHl
    /\ trace = [pc |-> "idle", backtrace |-> <<>>, style |-> "Unstyled", output |-> <<>>]
    /\ fm = [pc |-> "idle", operands |-> <<>>, ops |-> <<>>, out |-> <<>>]
    /\ fn = NoFn
    /\ \E n \in 0..MaxWords :
          \E words \in [1..n -> Words], b \in BOOLEAN :
             lx = [NoLex EXCEPT !.str = Join(words), !.for_backtrace = b]

SpecWords == InitWords /\ [][NextLex]_vars

\* text begins with the bytes of prefix
Begins(text, prefix) ==
    Len(text) >= Len(prefix) /\ \A i \in 1..Len(prefix) : text[i] = prefix[i]

\* token i of the parsed string is an identifier other than "operator" and
\* token i + 1 is Punctuation
FollowedByPunctuation(i) ==
    /\ i + 1 <= Len(lx.tokens)
    /\ lex(lx.str)[i].kind.tag = "Identifier"
    /\ Str(lx.tokens[i].text) # "operator"
    /\ lx.tokens[i + 1].kind = Punctuation

\* the kind the rules give identifier i for the punctuation after it, first
\* match wins; `braces` tells whether a text that begins with '{' and matches
\* no rule before counts as "any other text"
Decided(i, braces) ==
    LET before == ParsedUpTo(i)[i].kind
        token == lx.tokens[i + 1]
        text == token.text
    IN IF Begins(text, <<":", ":">>) THEN Identifier("Namespace")
       ELSE IF Begins(text, <<"{">>) /\ token.begin = lx.tokens[i].end THEN Identifier("Type")
       ELSE IF \/ text = <<"<">>
               \/ Begins(text, <<">">>) /\ ~(text = <<">", ">">> /\ before = Identifier("Variable"))
       THEN Identifier("Type")
       ELSE IF Begins(text, <<"(">>) THEN Identifier("Function")
       ELSE IF text # <<"=">> /\ (braces \/ ~Begins(text, <<"{">>)) THEN Identifier("Variable")
       ELSE before

\* C26 as stated: when a Punctuation token immediately follows an identifier
\* other than "operator", the final kind of the identifier is decided by the
\* punctuation, first match wins: "::..." Namespace; "{..." with no whitespace
\* between Type; "<" or ">..." (not ">>" after a Variable) Type; "(..."
\* Function; any other text except "=" Variable; no later token changes it.
C26_PunctuationDecidesKind ==
    lx.pc = "parsed" =>
        \A i \in 1..Len(lx.tokens) :
            FollowedByPunctuation(i) => lx.tokens[i].kind = Decided(i, TRUE)

\* C26 amended: as stated, but the last rule is "any other text except "="
\* and a text that begins with '{' gives Variable": an identifier followed,
\* after whitespace, by a '{' keeps its kind.
C26_PunctuationDecidesKindButBrace ==
    lx.pc = "parsed" =>
        \A i \in 1..Len(lx.tokens) :
            FollowedByPunctuation(i) => lx.tokens[i].kind = Decided(i, FALSE)

\* "0 f>>" was parsed: the identifier was Variable when ">>" was seen, and
\* stayed it
C26_Witness ==
    /\ lx.pc = "parsed"
    /\ lx.str = <<"0", " ", "f", ">", ">">>
    /\ lx.tokens[2].kind = Identifier("Variable")

\* the single characters of the fixed punctuation set, ';' included
PunctuationCharacters ==
    {"~", "!", "+", "-", "*", "/", "%", "^", "&", "|", "=", "<", ">", "?", ":", ".",
     "[", "]", "{", "}", "(", ")", ";"}

\* C27: every single character of the fixed punctuation set, ';' included, is
\* lexed as Punctuation: each such byte of the input lies in a Punctuation
\* token that is a maximal run of such bytes, so none of them is inside an
\* identifier, numeric, keyword or string token.
C27_PunctuationCharactersLexed ==
    lx.pc = "parsed" =>
        \A p \in 1..Len(lx.str) :
            lx.str[p] \in PunctuationCharacters =>
                \E i \in 1..Len(lx.tokens) :
                    LET token == lx.tokens[i]
                    IN /\ token.kind = Punctuation
                       /\ token.begin < p /\ p <= token.end
                       /\ \A q \in (token.begin + 1)..token.end :
                             lx.str[q] \in PunctuationCharacters
                       /\ token.begin = 0 \/ lx.str[token.begin] \notin PunctuationCharacters
                       /\ token.end = Len(lx.str)
                             \/ lx.str[token.end + 1] \notin PunctuationCharacters

-----------------------------------------------------------------------------
(* Claims about several post-conditions in one scope *)

\* C29: the post-conditions of one scope are each evaluated exactly once at
\* scope exit, in the reverse order of their declaration: at every moment the
\* evaluated ones are the last declared ones, each evaluated once; when a
\* post-condition fails and its handler returns, the exit goes on with the
\* remaining ones, and when the scope has been left all have been evaluated.
C29_PostconditionsInReverseOrder ==
    /\ \A i \in 1..Len(scope.guards) :
          scope.guards[i].evals = IF i > Len(scope.guards) - scope.destroyed THEN 1 ELSE 0
    /\ (pc = "returned" /\ cur.kind = "Postcondition") => cur.ret = "exiting"
    /\ pc = "left" => scope.destroyed = Len(scope.guards)

\* a scope with two post-conditions was left after the one declared last had
\* failed, its handler had returned, and the one declared first was evaluated
C29_Witness ==
    /\ pc = "left"
    /\ Len(scope.guards) = 2
    /\ scope.guards[2].obs # scope.guards[2].target
    /\ scope.guards[1].evals = 1
    /\ scope.guards[2].evals = 1

-----------------------------------------------------------------------------
(* Claims about the entries of the colour table *)

\* C30: registering a colour for a kind changes only the entry of that kind:
\* an entry changes only in a step that registers its kind, and then to the
\* colour registered, so get_color of every other kind is unchanged
\* (Punctuation and Variable, which share their default colour, included);
\* get_color changes no entry, and no step adds or removes an entry.
C30_RegistrationChangesOnlyItsKind ==
    [][/\ DOMAIN colors' = DOMAIN colors
       /\ \A j \in TokenKinds :
             get_color(colors', j) # get_color(colors, j) =>
                (reg'.last[j] # reg.last[j] /\ reg'.last[j] = get_color(colors', j))
       /\ (reg'.n = reg.n) => (colors' = colors)]_vars

\* a colour was registered for Punctuation, and get_color of Variable still
\* returned the default the two kinds share
C30_Witness ==
    /\ reg.last[Punctuation] = "0xff0000"
    /\ get_color(colors, Punctuation) = "0xff0000"
    /\ reg.last[Identifier("Variable")] = "none"
    /\ reg.got = [kind |-> Identifier("Variable"), color |-> "0x9daaaa"]

====
